---- MODULE Spec2Model ----
(***************************************************************************)
(* Cohort projection engine of Workforce-Compass: HRPredictor in           *)
(* src/core/predictor.py.  predict_one_year is a pure function and is      *)
(* modelled as the operator PredictOneYear; predict_multiple_years is the  *)
(* state machine: one action per loop iteration and one for the return.    *)
(*                                                                         *)
(* Numbers.  Headcounts are Python ints.  Rates and ratios are floats; the *)
(* model keeps a rate r as the integer r * RateDen, and the age-mass m as  *)
(* the integer m * RateDen, so every product and sum of the code is exact  *)
(* integer arithmetic here.  A float quotient x / y is kept as the pair    *)
(* [num, den]; the literal 0.0 of the guards is Zero.                      *)
(***************************************************************************)
EXTENDS Integers, Sequences, FiniteSets

\* ---------------------------------------------------------------- constants

MIN_LEVEL == 1
MAX_LEVEL == 7
LEVEL_RANGE == MIN_LEVEL..MAX_LEVEL

\* Fixed-point scale of the float rates, ratios and age-mass.
RateDen == 10

\* Largest forecast horizon the caller offers (slider 1..5).
MaxYears == 5

\* Bounds of the explored inputs.
MaxHead == 2
MaxTarget == 3
MaxCodeLen == 3

\* ------------------------------------------------------------------ helpers

\* Optional[...] arguments: None, or a supplied value.
None == [some |-> FALSE]
Some(v) == [some |-> TRUE, val |-> v]

\* sum(d.values()) / sum(... for level in LEVEL_RANGE), levels 1..7
SumLevels(f) == f[1] + f[2] + f[3] + f[4] + f[5] + f[6] + f[7]

\* A dict keyed by the levels 1..7, every entry computed once.
Dict(f) == <<f[1], f[2], f[3], f[4], f[5], f[6], f[7]>>

\* Variant of Round: an exact half goes down.
RoundHalfDown(n, d) ==
    LET q == n \div d
        r == n % d
    IN  IF 2 * r > d THEN q + 1 ELSE q

\* Python round() of the exact value n / d (d > 0): nearest integer, an exact
\* half goes to the even neighbour.
Round(n, d) ==
    LET q == n \div d
        r == n % d
    IN  IF 2 * r < d THEN q
        ELSE IF 2 * r > d THEN q + 1
        ELSE IF q % 2 = 0 THEN q ELSE q + 1

Max0(x) == IF x > 0 THEN x ELSE 0

\* A float quotient num / den, and the literal 0.0.
Quot(n, d) == [num |-> n, den |-> d]
Zero == [num |-> 0, den |-> 1]

\* ------------------------------------------------ predict_one_year, by step

\* Step 1.  round(headcount[level] * rate[level])
PromotedOut(emp, rates, level) == Round(emp[level] * rates[level], RateDen)

\* Variant of PromotedIn: the count is truncated, not rounded.
PromotedInTruncated(emp, rates, level) ==
    IF level > MIN_LEVEL THEN (emp[level - 1] * rates[level - 1]) \div RateDen ELSE 0

PromotedIn(emp, rates, level) ==
    IF level > MIN_LEVEL
    THEN Round(emp[level - 1] * rates[level - 1], RateDen)
    ELSE 0

\* A[level]: headcount after promotion adjustments, one channel.
AfterPromotion(emp, rates) ==
    Dict([level \in LEVEL_RANGE |->
        emp[level] - PromotedOut(emp, rates, level) + PromotedIn(emp, rates, level)])

\* Variant of AfterAttrition: the attrition is taken on the headcount after
\* promotion, round(A[level] - A[level] * attrition[level]).
AfterAttritionOnPromoted(emp, A, attrition) ==
    Dict([level \in LEVEL_RANGE |->
        Round(A[level] * RateDen - A[level] * attrition[level], RateDen)])

\* Step 2.  B[level] = round(A[level] - headcount[level] * attrition[level])
AfterAttrition(emp, A, attrition) ==
    Dict([level \in LEVEL_RANGE |->
        Round(A[level] * RateDen - emp[level] * attrition[level], RateDen)])

\* Step 3.  campus_hiring = round(target_total * campus_ratio)
CampusHiring(target_total, campus_ratio) == Round(target_total * campus_ratio, RateDen)

\* Variant of InitialC: a negative need is allocated as 0.
InitialCOfClampedNeed(needed, hiring_ratios) ==
    Dict([level \in LEVEL_RANGE |-> Round(Max0(needed) * hiring_ratios[level], RateDen)])

\* Step 4.  initial_C[level] = round(needed * hiring_ratios[level])
InitialC(needed, hiring_ratios) ==
    Dict([level \in LEVEL_RANGE |-> Round(needed * hiring_ratios[level], RateDen)])

\* Variant of MaxKeyLevel: the last level whose key is the largest.
MaxKeyLevelLast(c) ==
    CHOOSE x \in LEVEL_RANGE :
        /\ \A y \in LEVEL_RANGE : c[y] <= c[x]
        /\ \A y \in LEVEL_RANGE : y > x => c[y] < c[x]

\* max(LEVEL_RANGE, key=...): the first level, in ascending order, whose key
\* is the largest.
MaxKeyLevel(c) ==
    CHOOSE x \in LEVEL_RANGE :
        /\ \A y \in LEVEL_RANGE : c[y] <= c[x]
        /\ \A y \in LEVEL_RANGE : y < x => c[y] < c[x]

\* initial_C after the adjustment of the level with maximum hiring.
AdjustSkipped(c, needed) == c

AdjustSpread(c, needed) ==
    IF SumLevels(c) # needed
    THEN Dict([level \in LEVEL_RANGE |-> c[level] + (needed - SumLevels(c))])
    ELSE c

Adjust(c, needed) ==
    IF SumLevels(c) # needed
    THEN [c EXCEPT ![MaxKeyLevel(c)] = @ + (needed - SumLevels(c))]
    ELSE c

\* C[level] = max(0, initial_C[level])
\* Variant of Clamp: the floor is -1.
ClampAtMinusOne(c) == Dict([level \in LEVEL_RANGE |-> IF c[level] > -1 THEN c[level] ELSE -1])

ClampNone(c) == c

Clamp(c) == Dict([level \in LEVEL_RANGE |-> Max0(c[level])])

\* Step 5.  Projected year-end headcount by level.
FinalCampusEveryLevel(Bc, hiring) ==
    Dict([level \in LEVEL_RANGE |-> Bc[level] + hiring])

FinalCampus(Bc, hiring) ==
    Dict([level \in LEVEL_RANGE |->
        Bc[level] + (IF level = MIN_LEVEL THEN hiring ELSE 0)])

\* Variant of FinalSocial: the hires are left out.
FinalSocialWithoutHires(Bs, Cs) == Bs

FinalSocial(Bs, Cs) == Dict([level \in LEVEL_RANGE |-> Bs[level] + Cs[level]])

\* x / total if total != 0 else 0.0  (den is total, or total * RateDen for
\* a numerator kept times RateDen).
AverageUnguarded(num, den) == Quot(num, den)

AverageOrZero(num, den) == IF den # 0 THEN Quot(num, den) ELSE Zero

\* x / total if total > 0 else 0.0
RatioOrZero(num, den) == IF den > 0 THEN Quot(num, den) ELSE Zero

\* Variant of AgesMissing: the carried age-mass is not looked at.
AgesMissingIgnoringCarried(a) ==
    ~a.current_campus_ages.some \/ ~a.current_social_ages.some

\* The ValueError of the first year without age data.
AgesMissing(a) ==
    /\ ~a.previous_predicted_total_age.some
    /\ (~a.current_campus_ages.some \/ ~a.current_social_ages.some)

\* Variant of CurrentTotalAge: the ages are used whenever they are given.
CurrentTotalAgeFromAges(a) ==
    IF a.current_campus_ages.some /\ a.current_social_ages.some
    THEN RateDen * SumLevels([l \in LEVEL_RANGE |->
            a.current_campus_employees[l] * a.current_campus_ages.val[l]
            + a.current_social_employees[l] * a.current_social_ages.val[l]])
    ELSE a.previous_predicted_total_age.val

\* Current total age: from the ages in the first year, the carried value
\* otherwise.  (Age-mass quantities are the code's values times RateDen.)
CurrentTotalAge(a) ==
    IF ~a.previous_predicted_total_age.some
    THEN RateDen * SumLevels([l \in LEVEL_RANGE |->
            a.current_campus_employees[l] * a.current_campus_ages.val[l]
            + a.current_social_employees[l] * a.current_social_ages.val[l]])
    ELSE a.previous_predicted_total_age.val

\* sum(headcount[level] * attrition[level])
LeavingTotal(emp, attrition) ==
    SumLevels([level \in LEVEL_RANGE |-> emp[level] * attrition[level]])

\* Variant of LeavingTotalAge: the attrition rate is taken as 1.
LeavingTotalAgeUnrated(emp, attrition, ages) ==
    SumLevels([level \in LEVEL_RANGE |-> emp[level] * RateDen * ages[level]])

\* sum(headcount[level] * attrition[level] * leaving_age[level])
LeavingTotalAge(emp, attrition, ages) ==
    SumLevels([level \in LEVEL_RANGE |-> emp[level] * attrition[level] * ages[level]])

\* The locals of one call of predict_one_year that passes the age check, in
\* the order the code computes them.
Locals(a) ==
    LET A_campus == AfterPromotion(a.current_campus_employees, a.campus_promotion_rates)
        A_social == AfterPromotion(a.current_social_employees, a.social_promotion_rates)
        B_campus == AfterAttrition(a.current_campus_employees, A_campus,
                                   a.campus_attrition_rates)
        B_social == AfterAttrition(a.current_social_employees, A_social,
                                   a.social_attrition_rates)
        B == Dict([level \in LEVEL_RANGE |-> B_campus[level] + B_social[level]])
        total_B == SumLevels(B)
        campus_hiring == CampusHiring(a.target_total, a.campus_ratio)
        total_social_hiring_needed == a.target_total - total_B - campus_hiring
        initial_C == InitialC(total_social_hiring_needed, a.hiring_ratios)
        initial_total == SumLevels(initial_C)
        adjusted_C == Adjust(initial_C, total_social_hiring_needed)
        C == Clamp(adjusted_C)
        final_campus == FinalCampus(B_campus, campus_hiring)
        final_social == FinalSocial(B_social, C)
        final_structure ==
            Dict([level \in LEVEL_RANGE |-> final_campus[level] + final_social[level]])
        predicted_total == SumLevels(final_structure)
        predicted_average_level ==
            AverageOrZero(
                SumLevels([level \in LEVEL_RANGE |-> level * final_structure[level]]),
                predicted_total)
        current_total ==
            SumLevels([l \in LEVEL_RANGE |->
                a.current_campus_employees[l] + a.current_social_employees[l]])
        current_total_age == CurrentTotalAge(a)
        campus_leaving_total ==
            LeavingTotal(a.current_campus_employees, a.campus_attrition_rates)
        social_leaving_total ==
            LeavingTotal(a.current_social_employees, a.social_attrition_rates)
        campus_leaving_total_age ==
            LeavingTotalAge(a.current_campus_employees, a.campus_attrition_rates,
                            a.campus_leaving_ages)
        social_leaving_total_age ==
            LeavingTotalAge(a.current_social_employees, a.social_attrition_rates,
                            a.social_leaving_ages)
        survived_total ==
            RateDen * current_total - (campus_leaving_total + social_leaving_total)
        predicted_total_age ==
            current_total_age
            - (campus_leaving_total_age + social_leaving_total_age)
            + survived_total * 1
            + RateDen * campus_hiring * a.campus_new_hire_age
            + RateDen * SumLevels([level \in LEVEL_RANGE |->
                            C[level] * a.social_new_hire_ages[level]])
        predicted_average_age ==
            AverageOrZero(predicted_total_age, RateDen * predicted_total)
        predicted_campus_ratio ==
            RatioOrZero(SumLevels(final_campus), predicted_total)
    IN  [A_campus |-> A_campus, A_social |-> A_social,
         B_campus |-> B_campus, B_social |-> B_social, B |-> B,
         total_B |-> total_B,
         campus_hiring |-> campus_hiring,
         total_social_hiring_needed |-> total_social_hiring_needed,
         initial_C |-> initial_C,
         initial_total |-> initial_total,
         adjusted_C |-> adjusted_C,
         C |-> C,
         final_campus |-> final_campus,
         final_social |-> final_social,
         final_structure |-> final_structure,
         predicted_total |-> predicted_total,
         predicted_average_level |-> predicted_average_level,
         current_total |-> current_total,
         current_total_age |-> current_total_age,
         campus_leaving_total |-> campus_leaving_total,
         social_leaving_total |-> social_leaving_total,
         campus_leaving_total_age |-> campus_leaving_total_age,
         social_leaving_total_age |-> social_leaving_total_age,
         survived_total |-> survived_total,
         predicted_total_age |-> predicted_total_age,
         predicted_average_age |-> predicted_average_age,
         predicted_campus_ratio |-> predicted_campus_ratio]

\* The nine returned values, given the locals of the call.
Returned(t) ==
    [raised |-> FALSE,
     final_campus |-> t.final_campus,
     final_social |-> t.final_social,
     final_structure |-> t.final_structure,
     predicted_average_level |-> t.predicted_average_level,
     predicted_average_age |-> t.predicted_average_age,
     predicted_campus_ratio |-> t.predicted_campus_ratio,
     campus_hiring |-> t.campus_hiring,
     C |-> t.C,
     predicted_total_age |-> t.predicted_total_age]

\* The call: the ValueError, or the nine returned values.
PredictOneYear(a) ==
    IF AgesMissing(a) THEN [raised |-> TRUE] ELSE Returned(Locals(a))

\* ---------------------------------------------------------- explored inputs

Uniform(v) == Dict([level \in LEVEL_RANGE |-> v])

\* Starting headcounts: campus staff sit at the bottom of the pyramid, social
\* staff at the top; base is the size of the largest level.
CampusPyramid(base) == Dict([level \in LEVEL_RANGE |-> Max0(base - (level - MIN_LEVEL))])
SocialPyramid(base) == Dict([level \in LEVEL_RANGE |-> Max0(base - (MAX_LEVEL - level))])

\* Rates 0, 0.5 and 1.0, the same at every level: campus promotion, social
\* promotion, campus attrition, social attrition.
Half == RateDen \div 2
RateProfiles ==
    { <<0, 0, 0, 0>>,
      <<Half, Half, 0, 0>>,
      <<0, 0, Half, Half>>,
      <<Half, Half, Half, Half>>,
      <<RateDen, RateDen, RateDen, RateDen>>,
      <<0, 0, RateDen, RateDen>>,
      <<RateDen, 0, 0, Half>>,
      <<Half, RateDen, Half, 0>> }

\* Hiring-allocation ratios: all at level 1; halves at levels 1 and 2;
\* 0.5 at every level (each in [0,1], not summing to 1).
HiringRatioSet ==
    { Dict([level \in LEVEL_RANGE |-> IF level = 1 THEN RateDen ELSE 0]),
      Dict([level \in LEVEL_RANGE |-> IF level <= 2 THEN Half ELSE 0]),
      Uniform(Half) }

CampusAges == Dict([level \in LEVEL_RANGE |-> 22 + 3 * level])
SocialAges == Dict([level \in LEVEL_RANGE |-> 25 + 3 * level])

Bundles ==
    { [current_campus_employees |-> CampusPyramid(bc),
       current_social_employees |-> SocialPyramid(bs),
       current_campus_ages |-> CampusAges,
       current_social_ages |-> SocialAges,
       campus_leaving_ages |-> CampusAges,
       social_leaving_ages |-> SocialAges,
       social_new_hire_ages |-> SocialAges,
       campus_new_hire_age |-> 24,
       campus_promotion_rates |-> Uniform(rp[1]),
       social_promotion_rates |-> Uniform(rp[2]),
       campus_attrition_rates |-> Uniform(rp[3]),
       social_attrition_rates |-> Uniform(rp[4]),
       hiring_ratios |-> hr,
       campus_ratio |-> cr,
       target_total |-> tt] :
      bc \in 0..MaxHead, bs \in 0..MaxHead,
      rp \in RateProfiles, hr \in HiringRatioSet, cr \in {0, Half},
      tt \in 0..MaxTarget }

\* The worked scenario of the design notes: level 1 only, 100 + 100 staff,
\* attrition 0.1, campus ratio 0.5, target 200, every age 30.
ScenarioBundle ==
    [current_campus_employees |-> Dict([level \in LEVEL_RANGE |-> IF level = 1 THEN 100 ELSE 0]),
     current_social_employees |-> Dict([level \in LEVEL_RANGE |-> IF level = 1 THEN 100 ELSE 0]),
     current_campus_ages |-> Uniform(30),
     current_social_ages |-> Uniform(30),
     campus_leaving_ages |-> Uniform(30),
     social_leaving_ages |-> Uniform(30),
     social_new_hire_ages |-> Uniform(30),
     campus_new_hire_age |-> 30,
     campus_promotion_rates |-> Uniform(0),
     social_promotion_rates |-> Uniform(0),
     campus_attrition_rates |-> Uniform(RateDen \div 10),
     social_attrition_rates |-> Uniform(RateDen \div 10),
     hiring_ratios |-> Dict([level \in LEVEL_RANGE |-> IF level = 1 THEN RateDen ELSE 0]),
     campus_ratio |-> Half,
     target_total |-> 200]

\* ------------------------------------------------------------ DataProcessor

\* Outcome of a call: an exception of the named class, or a returned value.
Raised(exc) == [raised |-> TRUE, exc |-> exc]
Ret(v) == [raised |-> FALSE, val |-> v]

REQUIRED_COLUMNS ==
    {"level", "campus_employee", "social_employee", "campus_age", "social_age",
     "campus_leaving_age", "social_leaving_age", "social_new_hire_age",
     "campus_promotion_rate", "social_promotion_rate",
     "campus_attrition_rate", "social_attrition_rate", "hiring_ratio"}

\* Strings are sequences of one-character strings.
Digits == <<"0", "1", "2", "3", "4", "5", "6", "7", "8", "9">>
IsDigit(c) == \E i \in DOMAIN Digits : Digits[i] = c
DigitValue(c) == (CHOOSE i \in DOMAIN Digits : Digits[i] = c) - 1

\* str.strip() as int() applies it to its argument.
RECURSIVE LStrip(_)
LStrip(s) == IF s # <<>> /\ Head(s) = " " THEN LStrip(Tail(s)) ELSE s

RECURSIVE RStrip(_)
RStrip(s) ==
    IF s # <<>> /\ s[Len(s)] = " " THEN RStrip(SubSeq(s, 1, Len(s) - 1)) ELSE s

\* The digits of an int() literal: digits, with single underscores allowed
\* between two digits.
IsDigitString(s) ==
    /\ s # <<>>
    /\ IsDigit(s[1])
    /\ IsDigit(s[Len(s)])
    /\ \A i \in DOMAIN s : IsDigit(s[i]) \/ s[i] = "_"
    /\ \A i \in 1..(Len(s) - 1) : ~(s[i] = "_" /\ s[i + 1] = "_")

RECURSIVE Decimal(_)
Decimal(s) ==
    IF s = <<>> THEN 0
    ELSE LET front == SubSeq(s, 1, Len(s) - 1)
             last == s[Len(s)]
         IN  IF last = "_" THEN Decimal(front)
             ELSE Decimal(front) * Len(Digits) + DigitValue(last)

\* Python's int(str): surrounding blanks dropped, an optional sign, decimal
\* digits; anything else is a ValueError (ok = FALSE).
PyInt(s) ==
    LET t == RStrip(LStrip(s))
        signed == t # <<>> /\ t[1] \in {"+", "-"}
        u == IF signed THEN Tail(t) ELSE t
    IN  IF IsDigitString(u)
        THEN [ok |-> TRUE, val |-> IF signed /\ t[1] = "-" THEN -Decimal(u) ELSE Decimal(u)]
        ELSE [ok |-> FALSE]

\* Values of a level cell: a string, or what read_csv makes of a numeric or
\* an empty cell.
StrValue(chars) == [kind |-> "str", chars |-> chars]
IntValue(n) == [kind |-> "int", n |-> n]
NaNValue == [kind |-> "nan"]

\* Variant of the range test of normalize_level: 0 is let through.
InLevelRangeFromZero(n) == 0 <= n /\ n <= MAX_LEVEL

\* 1 <= level_num <= 7
InLevelRange(n) == MIN_LEVEL <= n /\ n <= MAX_LEVEL

\* isinstance(level_value, str) and level_value.startswith('L')
StartsWithL(v) == v.kind = "str" /\ v.chars # <<>> /\ v.chars[1] = "L"

NormalizeLevel(v) ==
    IF StartsWithL(v)
    THEN LET level_num == PyInt(Tail(v.chars))
         IN  IF ~level_num.ok THEN Raised("ValueError")
             ELSE IF InLevelRange(level_num.val) THEN Ret(level_num.val)
             ELSE Raised("ValueError")
    ELSE Raised("ValueError")

\* load_preset_from_csv on a file read_csv can read: the column check, the
\* level conversion row by row; every exception leaves as a plain Exception.
\* Nothing looks at the number of rows or at which levels they carry.
LoadPresetFromCsv(table) ==
    IF ~(REQUIRED_COLUMNS \subseteq table.columns) THEN Raised("Exception")
    ELSE IF \E i \in DOMAIN table.rows : NormalizeLevel(table.rows[i].level).raised
    THEN Raised("Exception")
    ELSE Ret([rows |-> [i \in DOMAIN table.rows |->
                [table.rows[i] EXCEPT !.level = NormalizeLevel(table.rows[i].level).val]]])

\* Variant of the guard of calculate_current_metrics: no guard.
CurrentAverageUnguarded(num, den) == Quot(num, den)

\* x / current_total if current_total != 0 else 0.0
CurrentAverageOrZero(num, den) == IF den # 0 THEN Quot(num, den) ELSE Zero

\* x / current_total if current_total > 0 else 0.0
CurrentRatioOrZero(num, den) == IF den > 0 THEN Quot(num, den) ELSE Zero

\* sum() of a column expression, one term per row.
RECURSIVE SumRows(_)
SumRows(terms) == IF terms = <<>> THEN 0 ELSE Head(terms) + SumRows(Tail(terms))

CalculateCurrentMetrics(df) ==
    LET rows == df.rows
        total_employees == [i \in DOMAIN rows |-> rows[i].campus_employee + rows[i].social_employee]
        current_total == SumRows(total_employees)
        level_mass == SumRows([i \in DOMAIN rows |-> rows[i].level * total_employees[i]])
        current_total_age ==
            SumRows([i \in DOMAIN rows |->
                        rows[i].campus_employee * rows[i].campus_age
                        + rows[i].social_employee * rows[i].social_age])
        campus_total == SumRows([i \in DOMAIN rows |-> rows[i].campus_employee])
    IN  Ret([current_total |-> current_total,
             current_average_level |-> CurrentAverageOrZero(level_mass, current_total),
             current_average_age |-> CurrentAverageOrZero(current_total_age, current_total),
             current_campus_ratio |-> CurrentRatioOrZero(campus_total, current_total)])

\* df.set_index('level')[column].to_dict(): one key per level present, the
\* last row of a level giving its value.
ToDict(df, column) ==
    [level \in {df.rows[i].level : i \in DOMAIN df.rows} |->
        LET last == CHOOSE i \in DOMAIN df.rows :
                        /\ df.rows[i].level = level
                        /\ \A j \in DOMAIN df.rows : df.rows[j].level = level => j <= i
        IN  df.rows[last][column]]

PreparePredictionParams(df, campus_ratio, campus_new_hire_age, target_total) ==
    Ret([current_campus_employees |-> ToDict(df, "campus_employee"),
         current_social_employees |-> ToDict(df, "social_employee"),
         current_campus_ages |-> ToDict(df, "campus_age"),
         current_social_ages |-> ToDict(df, "social_age"),
         campus_leaving_ages |-> ToDict(df, "campus_leaving_age"),
         social_leaving_ages |-> ToDict(df, "social_leaving_age"),
         social_new_hire_ages |-> ToDict(df, "social_new_hire_age"),
         campus_new_hire_age |-> campus_new_hire_age,
         campus_promotion_rates |-> ToDict(df, "campus_promotion_rate"),
         social_promotion_rates |-> ToDict(df, "social_promotion_rate"),
         campus_attrition_rates |-> ToDict(df, "campus_attrition_rate"),
         social_attrition_rates |-> ToDict(df, "social_attrition_rate"),
         hiring_ratios |-> ToDict(df, "hiring_ratio"),
         campus_ratio |-> campus_ratio,
         target_total |-> target_total])

\* The first year of a projection on a prepared bundle: predict_one_year
\* indexes every mapping with every level of LEVEL_RANGE, a KeyError where a
\* level has no entry.
FirstYearArgs(params) ==
    [current_campus_employees |-> Dict(params.current_campus_employees),
     current_social_employees |-> Dict(params.current_social_employees),
     current_campus_ages |-> Some(Dict(params.current_campus_ages)),
     current_social_ages |-> Some(Dict(params.current_social_ages)),
     campus_leaving_ages |-> Dict(params.campus_leaving_ages),
     social_leaving_ages |-> Dict(params.social_leaving_ages),
     social_new_hire_ages |-> Dict(params.social_new_hire_ages),
     campus_new_hire_age |-> params.campus_new_hire_age,
     campus_promotion_rates |-> Dict(params.campus_promotion_rates),
     social_promotion_rates |-> Dict(params.social_promotion_rates),
     campus_attrition_rates |-> Dict(params.campus_attrition_rates),
     social_attrition_rates |-> Dict(params.social_attrition_rates),
     hiring_ratios |-> Dict(params.hiring_ratios),
     campus_ratio |-> params.campus_ratio,
     target_total |-> params.target_total,
     previous_predicted_total_age |-> None]

FirstYearOfBundle(params) ==
    IF ~(LEVEL_RANGE \subseteq DOMAIN params.current_campus_employees)
    THEN Raised("KeyError")
    ELSE Ret(PredictOneYear(FirstYearArgs(params)))

\* ------------------------------------------- explored DataProcessor inputs

\* Level cells: every string of at most MaxCodeLen characters over an
\* alphabet with 'L', another letter, the blank, the signs, the underscore
\* and digits inside, at the edges of and outside 1..7; and two non-strings.
CodeChars == {"L", "l", " ", "+", "-", "_", "0", "1", "4", "7", "8"}

RECURSIVE StringsOfLen(_)
StringsOfLen(n) ==
    IF n = 0 THEN {<<>>}
    ELSE {Append(s, c) : s \in StringsOfLen(n - 1), c \in CodeChars}

LevelValues ==
    {StrValue(s) : s \in UNION {StringsOfLen(n) : n \in 0..MaxCodeLen}}
        \cup {IntValue(1), NaNValue}

\* The code 'Ln' of level n.
LevelCode(n) == StrValue(<<"L", Digits[n + 1]>>)

\* A row of a parameter table for level n, its level cell given.
Row(n, cell, bc, bs) ==
    [level |-> cell,
     campus_employee |-> CampusPyramid(bc)[n],
     social_employee |-> SocialPyramid(bs)[n],
     campus_age |-> CampusAges[n],
     social_age |-> SocialAges[n],
     campus_leaving_age |-> CampusAges[n],
     social_leaving_age |-> SocialAges[n],
     social_new_hire_age |-> SocialAges[n],
     campus_promotion_rate |-> Half,
     social_promotion_rate |-> Half,
     campus_attrition_rate |-> Half,
     social_attrition_rate |-> Half,
     hiring_ratio |-> IF n <= 2 THEN Half ELSE 0]

\* The levels of the rows of a table, in row order: any subset of the seven
\* levels in ascending order, the seven in descending order, or the seven
\* followed by a second row for one of them.
RECURSIVE Ascending(_)
Ascending(S) ==
    IF S = {} THEN <<>>
    ELSE LET m == CHOOSE x \in S : \A y \in S : x <= y
         IN  <<m>> \o Ascending(S \ {m})

LevelLists ==
    {Ascending(S) : S \in SUBSET LEVEL_RANGE}
        \cup {[i \in LEVEL_RANGE |-> MAX_LEVEL + MIN_LEVEL - i]}
        \cup {Append(Ascending(LEVEL_RANGE), n) : n \in LEVEL_RANGE}

\* Level cells normalize_level refuses.
BadCells ==
    {StrValue(<<"L", "8">>), StrValue(<<"L", "0">>), StrValue(<<"l", "1">>),
     StrValue(<<"1">>), IntValue(1), NaNValue}

ColumnSets ==
    {REQUIRED_COLUMNS, REQUIRED_COLUMNS \ {"level"}, REQUIRED_COLUMNS \ {"hiring_ratio"}}

Tables ==
    {[columns |-> cols,
      rows |-> [i \in DOMAIN levels |-> Row(levels[i], LevelCode(levels[i]), bc, bs)]] :
        cols \in ColumnSets, levels \in LevelLists, bc \in {0, MaxHead}, bs \in {0, MaxHead}}
    \cup
    {[columns |-> REQUIRED_COLUMNS,
      rows |-> [i \in LEVEL_RANGE |->
                    Row(i, IF i = k THEN cell ELSE LevelCode(i), MaxHead, MaxHead)]] :
        k \in {MIN_LEVEL, MAX_LEVEL}, cell \in BadCells}

\* Hiring ratios of 0.2 at levels 1 to 5: non-negative, summing to 1.
Fifth == RateDen \div 5
FifthsRatios == Dict([level \in LEVEL_RANGE |-> IF level <= 5 THEN Fifth ELSE 0])

\* Bundles of direct predict_one_year calls.
DirectBundles ==
    {x \in Bundles : x.target_total = MaxTarget /\ x.campus_ratio = Half
                      /\ x.hiring_ratios = Uniform(Half)}
    \cup {[x EXCEPT !.hiring_ratios = FifthsRatios] :
            x \in {y \in Bundles : y.hiring_ratios = Uniform(Half)}}

\* Arguments of direct predict_one_year calls: each age mapping and the
\* carried age-mass given or not.
DirectArgs ==
    {[current_campus_employees |-> b.current_campus_employees,
      current_social_employees |-> b.current_social_employees,
      current_campus_ages |-> IF ca THEN Some(b.current_campus_ages) ELSE None,
      current_social_ages |-> IF sa THEN Some(b.current_social_ages) ELSE None,
      campus_leaving_ages |-> b.campus_leaving_ages,
      social_leaving_ages |-> b.social_leaving_ages,
      social_new_hire_ages |-> b.social_new_hire_ages,
      campus_new_hire_age |-> b.campus_new_hire_age,
      campus_promotion_rates |-> b.campus_promotion_rates,
      social_promotion_rates |-> b.social_promotion_rates,
      campus_attrition_rates |-> b.campus_attrition_rates,
      social_attrition_rates |-> b.social_attrition_rates,
      hiring_ratios |-> b.hiring_ratios,
      campus_ratio |-> b.campus_ratio,
      target_total |-> b.target_total,
      previous_predicted_total_age |-> prev] :
        b \in DirectBundles,
        ca \in BOOLEAN, sa \in BOOLEAN,
        prev \in {None, Some(0), Some(RateDen * MaxHead * CampusAges[MAX_LEVEL])}}

\* ------------------------------------------------- predict_multiple_years

VARIABLES
    initial_params,                \* the parameter bundle passed in
    forecast_years,                \* the horizon passed in
    pc,                            \* "loop": in the for loop; "done": returned
    year,                          \* the loop variable of the next iteration
    current_year_campus,
    current_year_social,
    current_year_campus_ages,
    current_year_social_ages,
    previous_predicted_total_age,
    multi_year_results,
    last_call,                     \* the latest predict_one_year call: its arguments and locals
    api_call                       \* the latest direct call of the library: operation, argument, outcome

vars == <<initial_params, forecast_years, pc, year, current_year_campus,
          current_year_social, current_year_campus_ages, current_year_social_ages,
          previous_predicted_total_age, multi_year_results, last_call, api_call>>

\* Entry and the initialisation before the loop.  The rates of Bundles are
\* dyadic, so the float arithmetic of the code is exact on them for all five
\* years; the scenario's rate 0.1 is not, and it is run for the one year its
\* statement is about.
Init ==
    /\ \/ initial_params \in Bundles /\ forecast_years \in 1..MaxYears
       \/ initial_params = ScenarioBundle /\ forecast_years = 1
    /\ pc = "loop"
    /\ year = 0
    /\ multi_year_results = <<>>
    /\ current_year_campus = initial_params.current_campus_employees
    /\ current_year_social = initial_params.current_social_employees
    /\ current_year_campus_ages = initial_params.current_campus_ages
    /\ current_year_social_ages = initial_params.current_social_ages
    /\ previous_predicted_total_age = None
    /\ last_call = None
    /\ api_call = None

\* The arguments of the predict_one_year call of the iteration.
CallArgs ==
    [current_campus_employees |-> current_year_campus,
     current_social_employees |-> current_year_social,
     current_campus_ages |-> IF year = 0 THEN Some(current_year_campus_ages) ELSE None,
     current_social_ages |-> IF year = 0 THEN Some(current_year_social_ages) ELSE None,
     campus_leaving_ages |-> initial_params.campus_leaving_ages,
     social_leaving_ages |-> initial_params.social_leaving_ages,
     social_new_hire_ages |-> initial_params.social_new_hire_ages,
     campus_new_hire_age |-> initial_params.campus_new_hire_age,
     campus_promotion_rates |-> initial_params.campus_promotion_rates,
     social_promotion_rates |-> initial_params.social_promotion_rates,
     campus_attrition_rates |-> initial_params.campus_attrition_rates,
     social_attrition_rates |-> initial_params.social_attrition_rates,
     hiring_ratios |-> initial_params.hiring_ratios,
     campus_ratio |-> initial_params.campus_ratio,
     target_total |-> initial_params.target_total,
     previous_predicted_total_age |->
        IF year > 0 THEN previous_predicted_total_age ELSE None]

\* The record appended for the year.
YearRecordFromZero(result) ==
    [year |-> year,
     current_campus |-> current_year_campus,
     current_social |-> current_year_social,
     final_campus |-> result.final_campus,
     final_social |-> result.final_social,
     final_structure |-> result.final_structure,
     average_level |-> result.predicted_average_level,
     average_age |-> result.predicted_average_age,
     campus_ratio |-> result.predicted_campus_ratio,
     campus_hiring |-> result.campus_hiring,
     social_hiring |-> result.C,
     total_age |-> result.predicted_total_age]

YearRecord(result) ==
    [year |-> year + 1,
     current_campus |-> current_year_campus,
     current_social |-> current_year_social,
     final_campus |-> result.final_campus,
     final_social |-> result.final_social,
     final_structure |-> result.final_structure,
     average_level |-> result.predicted_average_level,
     average_age |-> result.predicted_average_age,
     campus_ratio |-> result.predicted_campus_ratio,
     campus_hiring |-> result.campus_hiring,
     social_hiring |-> result.C,
     total_age |-> result.predicted_total_age]

\* Update input data for next year: the locals are rebound to copies of the
\* year's results; the bundle is not written.
UpdateInputsInPlace(result) ==
    /\ current_year_campus' = result.final_campus
    /\ current_year_social' = result.final_social
    /\ previous_predicted_total_age' = Some(result.predicted_total_age)
    /\ initial_params' = [initial_params EXCEPT
            !.current_campus_employees = result.final_campus,
            !.current_social_employees = result.final_social]

UpdateInputsStale(result) ==
    /\ current_year_campus' = result.final_campus
    /\ current_year_social' = current_year_social
    /\ previous_predicted_total_age' = Some(result.predicted_total_age)
    /\ UNCHANGED initial_params

UpdateInputsAgeStale(result) ==
    /\ current_year_campus' = result.final_campus
    /\ current_year_social' = result.final_social
    /\ previous_predicted_total_age' =
            IF previous_predicted_total_age.some
            THEN previous_predicted_total_age
            ELSE Some(result.predicted_total_age)
    /\ UNCHANGED initial_params

UpdateInputs(result) ==
    /\ current_year_campus' = result.final_campus
    /\ current_year_social' = result.final_social
    /\ previous_predicted_total_age' = Some(result.predicted_total_age)
    /\ UNCHANGED initial_params

\* One iteration of the loop.  An exception of predict_one_year leaves the
\* function without a result.
PredictYear ==
    /\ pc = "loop"
    /\ year < forecast_years
    /\ LET args == CallArgs
           locals == Locals(args)
           result == IF AgesMissing(args) THEN [raised |-> TRUE] ELSE Returned(locals)
       IN  IF result.raised
           THEN /\ pc' = "raised"
                /\ UNCHANGED <<initial_params, year, current_year_campus,
                               current_year_social, previous_predicted_total_age,
                               multi_year_results, last_call>>
           ELSE /\ multi_year_results' = Append(multi_year_results, YearRecord(result))
                /\ last_call' = [some |-> TRUE, args |-> args, locals |-> locals]
                /\ UpdateInputs(result)
                /\ year' = year + 1
                /\ pc' = pc
    /\ UNCHANGED <<forecast_years, current_year_campus_ages, current_year_social_ages,
                   api_call>>

\* The loop is exhausted: return multi_year_results.
Return ==
    /\ pc = "loop"
    /\ year >= forecast_years
    /\ pc' = "done"
    /\ UNCHANGED <<initial_params, forecast_years, year, current_year_campus,
                   current_year_social, current_year_campus_ages,
                   current_year_social_ages, previous_predicted_total_age,
                   multi_year_results, last_call, api_call>>

Next == PredictYear \/ Return

Spec == Init /\ [][Next]_vars

\* ------------------------------------------------- the library called directly

\* A session of direct calls: one call of normalize_level or predict_one_year,
\* or the pipeline of the application, load_preset_from_csv, then
\* calculate_current_metrics or prepare_prediction_params on the loaded
\* table, then the projection on the prepared bundle.
InitCalls ==
    /\ initial_params = ScenarioBundle
    /\ forecast_years = 1
    /\ pc = "api"
    /\ year = 0
    /\ multi_year_results = <<>>
    /\ current_year_campus = initial_params.current_campus_employees
    /\ current_year_social = initial_params.current_social_employees
    /\ current_year_campus_ages = initial_params.current_campus_ages
    /\ current_year_social_ages = initial_params.current_social_ages
    /\ previous_predicted_total_age = None
    /\ last_call = None
    /\ api_call = None

Called(op, arg, out) == [some |-> TRUE, op |-> op, arg |-> arg, out |-> out]

Loaded == api_call.some /\ api_call.op = "load_preset_from_csv" /\ ~api_call.out.raised

CallNormalizeLevel ==
    /\ pc = "api" /\ ~api_call.some
    /\ \E v \in LevelValues :
          api_call' = Called("normalize_level", v, NormalizeLevel(v))
    /\ UNCHANGED <<initial_params, forecast_years, pc, year, current_year_campus,
                   current_year_social, current_year_campus_ages,
                   current_year_social_ages, previous_predicted_total_age,
                   multi_year_results, last_call>>

CallPredictOneYear ==
    /\ pc = "api" /\ ~api_call.some
    /\ \E a \in DirectArgs :
          api_call' = Called("predict_one_year", a, PredictOneYear(a))
    /\ UNCHANGED <<initial_params, forecast_years, pc, year, current_year_campus,
                   current_year_social, current_year_campus_ages,
                   current_year_social_ages, previous_predicted_total_age,
                   multi_year_results, last_call>>

CallLoadPreset ==
    /\ pc = "api" /\ ~api_call.some
    /\ \E table \in Tables :
          api_call' = Called("load_preset_from_csv", table, LoadPresetFromCsv(table))
    /\ UNCHANGED <<initial_params, forecast_years, pc, year, current_year_campus,
                   current_year_social, current_year_campus_ages,
                   current_year_social_ages, previous_predicted_total_age,
                   multi_year_results, last_call>>

CallCalculateCurrentMetrics ==
    /\ pc = "api" /\ Loaded
    /\ api_call' = Called("calculate_current_metrics", api_call.out.val,
                          CalculateCurrentMetrics(api_call.out.val))
    /\ UNCHANGED <<initial_params, forecast_years, pc, year, current_year_campus,
                   current_year_social, current_year_campus_ages,
                   current_year_social_ages, previous_predicted_total_age,
                   multi_year_results, last_call>>

CallPreparePredictionParams ==
    /\ pc = "api" /\ Loaded
    /\ \E campus_ratio \in {0, Half}, target_total \in {1, MaxTarget} :
          api_call' = Called("prepare_prediction_params",
                             [df |-> api_call.out.val, campus_ratio |-> campus_ratio,
                              campus_new_hire_age |-> 24, target_total |-> target_total],
                             PreparePredictionParams(api_call.out.val, campus_ratio,
                                                     24, target_total))
    /\ UNCHANGED <<initial_params, forecast_years, pc, year, current_year_campus,
                   current_year_social, current_year_campus_ages,
                   current_year_social_ages, previous_predicted_total_age,
                   multi_year_results, last_call>>

CallProjection ==
    /\ pc = "api"
    /\ api_call.some /\ api_call.op = "prepare_prediction_params" /\ ~api_call.out.raised
    /\ api_call' = Called("predict_multiple_years",
                          [df |-> api_call.arg.df, params |-> api_call.out.val],
                          FirstYearOfBundle(api_call.out.val))
    /\ UNCHANGED <<initial_params, forecast_years, pc, year, current_year_campus,
                   current_year_social, current_year_campus_ages,
                   current_year_social_ages, previous_predicted_total_age,
                   multi_year_results, last_call>>

NextCalls ==
    \/ CallNormalizeLevel
    \/ CallPredictOneYear
    \/ CallLoadPreset
    \/ CallCalculateCurrentMetrics
    \/ CallPreparePredictionParams
    \/ CallProjection

SpecCalls == InitCalls /\ [][NextCalls]_vars

\* ------------------------------------------------------------------ claims

NYears == Len(multi_year_results)
LastRecord == multi_year_results[NYears]

\* C1: in every forecast year, final_campus[L] >= 0 and final_social[L] >= 0
\* at every level (the explored bundles have non-negative headcounts, rates
\* and ratios in [0,1] and target_total >= 0).
C1_NonNegative ==
    \A k \in 1..NYears : \A level \in LEVEL_RANGE :
        /\ multi_year_results[k].final_campus[level] >= 0
        /\ multi_year_results[k].final_social[level] >= 0

\* C2: when social_hiring_total >= 0 and no adjusted allocation is negative
\* (nothing is clamped), the returned social hires sum to social_hiring_total.
C2_AllocationReconciled ==
    last_call.some =>
        LET t == last_call.locals
        IN  (/\ t.total_social_hiring_needed >= 0
             /\ \A level \in LEVEL_RANGE : t.adjusted_C[level] >= 0)
            => SumLevels(LastRecord.social_hiring) = t.total_social_hiring_needed

C2_Witness ==
    /\ last_call.some
    /\ last_call.locals.total_social_hiring_needed > 0
    /\ last_call.locals.initial_total # last_call.locals.total_social_hiring_needed
    /\ \A level \in LEVEL_RANGE : last_call.locals.adjusted_C[level] >= 0

\* C3: the returned social hires never sum to less than social_hiring_total,
\* clamped or not; the predicted total headcount is never below target_total.
C3_NeverBelowNeeded ==
    last_call.some =>
        /\ SumLevels(LastRecord.social_hiring)
              >= last_call.locals.total_social_hiring_needed
        /\ SumLevels(LastRecord.final_structure) >= last_call.args.target_total

C3_Witness ==
    /\ last_call.some
    /\ \E level \in LEVEL_RANGE : last_call.locals.adjusted_C[level] < 0
    /\ SumLevels(LastRecord.social_hiring) > last_call.locals.total_social_hiring_needed

\* C4: campus_hiring enters final_campus at level 1 only: final_campus[1] =
\* B_campus[1] + campus_hiring and final_campus[L] = B_campus[L] for L in 2..7.
C4_CampusInflowLevel1Only ==
    last_call.some =>
        LET t == last_call.locals
        IN  /\ LastRecord.final_campus[MIN_LEVEL]
                  = t.B_campus[MIN_LEVEL] + LastRecord.campus_hiring
            /\ \A level \in (MIN_LEVEL + 1)..MAX_LEVEL :
                  LastRecord.final_campus[level] = t.B_campus[level]

C4_Witness ==
    /\ last_call.some
    /\ LastRecord.campus_hiring > 0
    /\ \E level \in (MIN_LEVEL + 1)..MAX_LEVEL : last_call.locals.B_campus[level] > 0

\* C5: the worked scenario yields B_campus[1] = B_social[1] = 90, campus_hiring
\* = 100, social_hiring_total = -80 allocated to level 1 and clamped to 0,
\* final_campus[1] = 190, final_social[1] = 90, final_structure[1] = 280.
C5_Scenario ==
    (initial_params = ScenarioBundle /\ NYears = 1) =>
        LET t == last_call.locals
            r == multi_year_results[1]
        IN  /\ t.B_campus[1] = 90
            /\ t.B_social[1] = 90
            /\ r.campus_hiring = 100
            /\ t.total_social_hiring_needed = -80
            /\ t.adjusted_C[1] = -80
            /\ r.social_hiring = Uniform(0)
            /\ r.final_campus[1] = 190
            /\ r.final_social[1] = 90
            /\ r.final_structure[1] = 280

C5_Witness == initial_params = ScenarioBundle /\ NYears = 1 /\ pc = "done"

\* The single-year call made by hand from a year's record: its final
\* headcounts and age-mass, no current ages, the bundle's other parameters.
ManualArgs(rec) ==
    [current_campus_employees |-> rec.final_campus,
     current_social_employees |-> rec.final_social,
     current_campus_ages |-> None,
     current_social_ages |-> None,
     campus_leaving_ages |-> initial_params.campus_leaving_ages,
     social_leaving_ages |-> initial_params.social_leaving_ages,
     social_new_hire_ages |-> initial_params.social_new_hire_ages,
     campus_new_hire_age |-> initial_params.campus_new_hire_age,
     campus_promotion_rates |-> initial_params.campus_promotion_rates,
     social_promotion_rates |-> initial_params.social_promotion_rates,
     campus_attrition_rates |-> initial_params.campus_attrition_rates,
     social_attrition_rates |-> initial_params.social_attrition_rates,
     hiring_ratios |-> initial_params.hiring_ratios,
     campus_ratio |-> initial_params.campus_ratio,
     target_total |-> initial_params.target_total,
     previous_predicted_total_age |-> Some(rec.total_age)]

\* C6: the year-3 record of a run of three or more years carries the nine
\* values one predict_one_year call returns when fed year 2's record by hand.
C6_ChainingConsistent ==
    NYears >= 3 =>
        LET r == PredictOneYear(ManualArgs(multi_year_results[2]))
            y == multi_year_results[3]
        IN  /\ ~r.raised
            /\ y.final_campus = r.final_campus
            /\ y.final_social = r.final_social
            /\ y.final_structure = r.final_structure
            /\ y.average_level = r.predicted_average_level
            /\ y.average_age = r.predicted_average_age
            /\ y.campus_ratio = r.predicted_campus_ratio
            /\ y.campus_hiring = r.campus_hiring
            /\ y.social_hiring = r.C
            /\ y.total_age = r.predicted_total_age

C6_Witness ==
    /\ NYears = 3
    /\ forecast_years = 3
    /\ multi_year_results[3].final_structure # multi_year_results[2].final_structure
    /\ multi_year_results[2].total_age # multi_year_results[1].total_age

\* C8: a run with horizon N returns exactly N records, the k-th with year k.
C8_OneRecordPerYear ==
    pc = "done" =>
        /\ NYears = forecast_years
        /\ \A k \in 1..NYears : multi_year_results[k].year = k

C8_Witness == pc = "done" /\ forecast_years = MaxYears /\ NYears = MaxYears

\* C9: year 1 starts from the bundle's headcounts and ages; year k > 1 starts
\* from year k-1's final_campus / final_social and total_age, and is passed no
\* current ages.
C9_YearInputsChained ==
    last_call.some =>
        LET a == last_call.args
            k == NYears
        IN  /\ LastRecord.current_campus = a.current_campus_employees
            /\ LastRecord.current_social = a.current_social_employees
            /\ k = 1 =>
                  /\ a.current_campus_employees = initial_params.current_campus_employees
                  /\ a.current_social_employees = initial_params.current_social_employees
                  /\ a.current_campus_ages = Some(initial_params.current_campus_ages)
                  /\ a.current_social_ages = Some(initial_params.current_social_ages)
                  /\ ~a.previous_predicted_total_age.some
            /\ k > 1 =>
                  /\ a.current_campus_employees = multi_year_results[k - 1].final_campus
                  /\ a.current_social_employees = multi_year_results[k - 1].final_social
                  /\ a.previous_predicted_total_age
                        = Some(multi_year_results[k - 1].total_age)
                  /\ ~a.current_campus_ages.some
                  /\ ~a.current_social_ages.some

C9_Witness ==
    /\ last_call.some
    /\ NYears > 1
    /\ multi_year_results[NYears - 1].final_social
          # multi_year_results[NYears - 1].current_social
    /\ multi_year_results[NYears - 1].final_campus
          # multi_year_results[NYears - 1].current_campus

\* C10: no step of predict_multiple_years changes the bundle passed in.
C10_BundleUnchanged == [][initial_params' = initial_params]_vars

C10_Witness ==
    /\ pc = "done"
    /\ NYears > 1
    /\ multi_year_results[1].final_campus # initial_params.current_campus_employees
    /\ multi_year_results[1].final_social # initial_params.current_social_employees

\* C11: predict_one_year without a carried age-mass and with the campus or
\* the social current ages missing raises and returns nothing; with a carried
\* age-mass, missing current ages raise nothing and the call returns.
C11_FirstYearNeedsAges ==
    (api_call.some /\ api_call.op = "predict_one_year") =>
        LET a == api_call.arg
            out == api_call.out
        IN  /\ (~a.previous_predicted_total_age.some
                /\ (~a.current_campus_ages.some \/ ~a.current_social_ages.some))
                    => (out.raised /\ DOMAIN out = {"raised"})
            /\ a.previous_predicted_total_age.some
                    => (~out.raised /\ "final_structure" \in DOMAIN out
                        /\ "predicted_total_age" \in DOMAIN out)

C11_Witness ==
    /\ api_call.some
    /\ api_call.op = "predict_one_year"
    /\ api_call.out.raised
    /\ api_call.arg.current_campus_ages.some
    /\ ~api_call.arg.current_social_ages.some

\* C12: a table whose rows are not exactly one per level 1..7 is refused by
\* prepare_prediction_params with an error: no parameter bundle is returned
\* for it.
C12_IncompleteLevelsRejected ==
    (api_call.some /\ api_call.op = "prepare_prediction_params") =>
        LET rows == api_call.arg.df.rows
        IN  (Len(rows) # MAX_LEVEL \/ {rows[i].level : i \in DOMAIN rows} # LEVEL_RANGE)
                => api_call.out.raised

\* C13: normalize_level returns n for the code 'Ln', n in 1..7, and raises
\* ValueError for a non-string, for a string not starting with 'L' and for
\* a code whose number is outside 1..7; whatever it returns is the integer in
\* 1..7 written after the 'L', and whatever it raises is a ValueError.
C13_NormalizeLevel ==
    (api_call.some /\ api_call.op = "normalize_level") =>
        LET v == api_call.arg
            out == api_call.out
        IN  /\ \A n \in LEVEL_RANGE : v = LevelCode(n) => out = Ret(n)
            /\ v.kind # "str" => out = Raised("ValueError")
            /\ (v.kind = "str" /\ (v.chars = <<>> \/ v.chars[1] # "L"))
                    => out = Raised("ValueError")
            /\ (v.kind = "str" /\ Len(v.chars) = 2 /\ v.chars[1] = "L"
                /\ IsDigit(v.chars[2]) /\ DigitValue(v.chars[2]) \notin LEVEL_RANGE)
                    => out = Raised("ValueError")
            /\ out.raised => out.exc = "ValueError"
            /\ ~out.raised =>
                    /\ out.val \in LEVEL_RANGE
                    /\ v.kind = "str" /\ v.chars[1] = "L"
                    /\ PyInt(Tail(v.chars)) = [ok |-> TRUE, val |-> out.val]

C13_Witness ==
    /\ api_call.some
    /\ api_call.op = "normalize_level"
    /\ api_call.arg = LevelCode(MAX_LEVEL)
    /\ api_call.out = Ret(MAX_LEVEL)

\* C14: calculate_current_metrics on a table with zero headcount in every row
\* and channel returns current_total 0 and the three metrics 0.0.
C14_AllZeroTableMetrics ==
    (/\ api_call.some
     /\ api_call.op = "calculate_current_metrics"
     /\ \A i \in DOMAIN api_call.arg.rows :
            /\ api_call.arg.rows[i].campus_employee = 0
            /\ api_call.arg.rows[i].social_employee = 0) =>
        api_call.out = Ret([current_total |-> 0,
                            current_average_level |-> Zero,
                            current_average_age |-> Zero,
                            current_campus_ratio |-> Zero])

C14_Witness ==
    /\ api_call.some
    /\ api_call.op = "calculate_current_metrics"
    /\ Len(api_call.arg.rows) = MAX_LEVEL
    /\ \A i \in DOMAIN api_call.arg.rows :
            /\ api_call.arg.rows[i].campus_employee = 0
            /\ api_call.arg.rows[i].social_employee = 0
    /\ ~api_call.out.raised
    /\ api_call.out.val.current_average_age = Zero

\* C15: whenever the predicted total headcount is 0, predicted_average_level,
\* predicted_average_age and predicted_campus_ratio are all 0.0.
C15_ZeroTotalGivesZeroMetrics ==
    (last_call.some /\ SumLevels(LastRecord.final_structure) = 0) =>
        /\ LastRecord.average_level = Zero
        /\ LastRecord.average_age = Zero
        /\ LastRecord.campus_ratio = Zero

C15_Witness ==
    /\ last_call.some
    /\ SumLevels(LastRecord.final_structure) = 0
    /\ LastRecord.total_age # 0
    /\ SumLevels(LastRecord.current_campus) + SumLevels(LastRecord.current_social) > 0

\* C16: the attrition step takes the attrition on the headcount after
\* promotion: B[L] = round(A[L] - A[L] * attrition_rate[L]), both channels.
C16_AttritionOnPostPromotion ==
    last_call.some =>
        LET a == last_call.args
            t == last_call.locals
        IN  \A level \in LEVEL_RANGE :
                /\ t.B_campus[level]
                      = Round(t.A_campus[level] * RateDen
                              - t.A_campus[level] * a.campus_attrition_rates[level], RateDen)
                /\ t.B_social[level]
                      = Round(t.A_social[level] * RateDen
                              - t.A_social[level] * a.social_attrition_rates[level], RateDen)

C18_TopLevelKeepsHeadcount ==
    last_call.some =>
        LET a == last_call.args
            t == last_call.locals
        IN  /\ t.A_campus[MIN_LEVEL] <= a.current_campus_employees[MIN_LEVEL]
            /\ t.A_social[MIN_LEVEL] <= a.current_social_employees[MIN_LEVEL]
            /\ t.A_campus[MAX_LEVEL]
                  = a.current_campus_employees[MAX_LEVEL]
                    + Round(a.current_campus_employees[MAX_LEVEL - 1]
                                * a.campus_promotion_rates[MAX_LEVEL - 1], RateDen)
            /\ t.A_social[MAX_LEVEL]
                  = a.current_social_employees[MAX_LEVEL]
                    + Round(a.current_social_employees[MAX_LEVEL - 1]
                                * a.social_promotion_rates[MAX_LEVEL - 1], RateDen)

\* C19: campus_hiring = round(target_total * campus_ratio), social_hiring_total
\* = target_total - sum(B_campus + B_social) - campus_hiring, and the total,
\* negative or not, is allocated as round(social_hiring_total * ratio[L]).
C19_HiringNeedsUnclamped ==
    last_call.some =>
        LET a == last_call.args
            t == last_call.locals
        IN  /\ t.campus_hiring = Round(a.target_total * a.campus_ratio, RateDen)
            /\ LastRecord.campus_hiring = t.campus_hiring
            /\ t.total_social_hiring_needed
                  = a.target_total - (SumLevels(t.B_campus) + SumLevels(t.B_social))
                    - t.campus_hiring
            /\ \A level \in LEVEL_RANGE :
                  t.initial_C[level]
                      = Round(t.total_social_hiring_needed * a.hiring_ratios[level], RateDen)

C19_Witness ==
    /\ last_call.some
    /\ last_call.locals.total_social_hiring_needed < 0
    /\ \E level \in LEVEL_RANGE : last_call.locals.initial_C[level] < 0
    /\ last_call.locals.campus_hiring > 0

\* C20: when the rounded allocations do not sum to social_hiring_total, the
\* whole difference goes to one level, the lowest-numbered of those with the
\* largest rounded allocation; every other allocation stays as rounded.
C20_ResidualToFirstLargest ==
    (last_call.some
     /\ last_call.locals.initial_total # last_call.locals.total_social_hiring_needed) =>
        LET t == last_call.locals
            diff == t.total_social_hiring_needed - t.initial_total
        IN  \E m \in LEVEL_RANGE :
                /\ \A y \in LEVEL_RANGE : t.initial_C[y] <= t.initial_C[m]
                /\ \A y \in LEVEL_RANGE : y < m => t.initial_C[y] < t.initial_C[m]
                /\ t.adjusted_C[m] = t.initial_C[m] + diff
                /\ \A y \in LEVEL_RANGE \ {m} : t.adjusted_C[y] = t.initial_C[y]

C20_Witness ==
    /\ last_call.some
    /\ last_call.locals.initial_total # last_call.locals.total_social_hiring_needed
    /\ \E x, y \in LEVEL_RANGE :
          /\ x < y
          /\ last_call.locals.initial_C[x] = last_call.locals.initial_C[y]
          /\ \A z \in LEVEL_RANGE : last_call.locals.initial_C[z] <= last_call.locals.initial_C[x]
          /\ last_call.locals.adjusted_C[x] # last_call.locals.initial_C[x]

\* C21: the returned social hires are max(0, corrected allocation) >= 0 at
\* every level, so final_social[L] >= B_social[L].
C21_SocialHiresNonNegative ==
    last_call.some =>
        \A level \in LEVEL_RANGE :
            /\ LastRecord.social_hiring[level] >= 0
            /\ LastRecord.social_hiring[level]
                  = (IF last_call.locals.adjusted_C[level] > 0
                     THEN last_call.locals.adjusted_C[level] ELSE 0)
            /\ LastRecord.final_social[level] >= last_call.locals.B_social[level]

C21_Witness ==
    /\ last_call.some
    /\ \E level \in LEVEL_RANGE :
          /\ last_call.locals.adjusted_C[level] < 0
          /\ LastRecord.social_hiring[level] = 0
          /\ LastRecord.final_social[level] = last_call.locals.B_social[level]

\* C22: the returned age-mass is the starting age-mass (headcount * current
\* age in the first year, the carried value later), minus headcount *
\* attrition rate * leaving age over channels and levels, plus the retained
\* headcount (one year each), plus campus hires * campus new-hire age, plus
\* the clamped social hires * social new-hire age over levels.  (Age-mass is in
\* units of 1 / RateDen.)
C22_AgeMass ==
    last_call.some =>
        LET a == last_call.args
            start ==
                IF a.previous_predicted_total_age.some
                THEN a.previous_predicted_total_age.val
                ELSE RateDen * SumLevels([l \in LEVEL_RANGE |->
                        a.current_campus_employees[l] * a.current_campus_ages.val[l]
                        + a.current_social_employees[l] * a.current_social_ages.val[l]])
            removed ==
                SumLevels([l \in LEVEL_RANGE |->
                    a.current_campus_employees[l] * a.campus_attrition_rates[l]
                        * a.campus_leaving_ages[l]
                    + a.current_social_employees[l] * a.social_attrition_rates[l]
                        * a.social_leaving_ages[l]])
            retained ==
                SumLevels([l \in LEVEL_RANGE |->
                    a.current_campus_employees[l] * (RateDen - a.campus_attrition_rates[l])
                    + a.current_social_employees[l] * (RateDen - a.social_attrition_rates[l])])
            hired ==
                RateDen * (LastRecord.campus_hiring * a.campus_new_hire_age
                           + SumLevels([l \in LEVEL_RANGE |->
                                LastRecord.social_hiring[l] * a.social_new_hire_ages[l]]))
        IN  LastRecord.total_age = start - removed + retained + hired

C22_Witness ==
    /\ last_call.some
    /\ last_call.args.previous_predicted_total_age.some
    /\ LastRecord.campus_hiring > 0
    /\ \E level \in LEVEL_RANGE : LastRecord.social_hiring[level] > 0
    /\ \E level \in LEVEL_RANGE :
          /\ last_call.args.current_social_employees[level] > 0
          /\ last_call.args.social_attrition_rates[level] = Half
    /\ \E level \in LEVEL_RANGE : last_call.locals.adjusted_C[level] < 0

\* The integer nearest to n / d, an exact half going to the even one.
IsNearestEven(n, d, r) ==
    LET twice == IF n >= r * d THEN 2 * (n - r * d) ELSE 2 * (r * d - n)
    IN  twice <= d /\ (twice = d => r % 2 = 0)

NearestEven(n, d) ==
    CHOOSE r \in ((n \div d) - 1)..((n \div d) + 1) : IsNearestEven(n, d, r)

\* C24: promoted counts, post-attrition headcounts, campus_hiring and the
\* per-level social allocations are each the nearest integer of their own
\* operand, an exact half going to the even integer.
C24_RoundHalfEven ==
    last_call.some =>
        LET a == last_call.args
            t == last_call.locals
            Promoted(emp, rates, l) == NearestEven(emp[l] * rates[l], RateDen)
            Kept(emp, rates, l) ==
                emp[l] - Promoted(emp, rates, l)
                + (IF l > MIN_LEVEL THEN Promoted(emp, rates, l - 1) ELSE 0)
        IN  /\ IsNearestEven(a.target_total * a.campus_ratio, RateDen, t.campus_hiring)
            /\ \A l \in LEVEL_RANGE :
                  /\ t.A_campus[l]
                        = Kept(a.current_campus_employees, a.campus_promotion_rates, l)
                  /\ t.A_social[l]
                        = Kept(a.current_social_employees, a.social_promotion_rates, l)
                  /\ IsNearestEven(t.A_campus[l] * RateDen
                                     - a.current_campus_employees[l]
                                           * a.campus_attrition_rates[l],
                                   RateDen, t.B_campus[l])
                  /\ IsNearestEven(t.A_social[l] * RateDen
                                     - a.current_social_employees[l]
                                           * a.social_attrition_rates[l],
                                   RateDen, t.B_social[l])
                  /\ IsNearestEven(t.total_social_hiring_needed * a.hiring_ratios[l],
                                   RateDen, t.initial_C[l])

\* An exact half rounded up (1.5 -> 2) and another rounded down (0.5 -> 0).
C24_Witness ==
    /\ last_call.some
    /\ 2 * ((last_call.args.target_total * last_call.args.campus_ratio) % RateDen) = RateDen
    /\ last_call.locals.campus_hiring * RateDen
          > last_call.args.target_total * last_call.args.campus_ratio
    /\ \E l \in LEVEL_RANGE :
          /\ 2 * ((last_call.locals.total_social_hiring_needed
                      * last_call.args.hiring_ratios[l]) % RateDen) = RateDen
          /\ last_call.locals.initial_C[l] * RateDen
                < last_call.locals.total_social_hiring_needed
                      * last_call.args.hiring_ratios[l]

\* C25: in every forecast year in which no corrected allocation is negative,
\* the year's final structure sums to target_total.
C25_TargetMetWithoutClamp ==
    (last_call.some /\ \A l \in LEVEL_RANGE : last_call.locals.adjusted_C[l] >= 0) =>
        SumLevels(LastRecord.final_structure) = last_call.args.target_total

C25_Witness ==
    /\ last_call.some
    /\ NYears >= 2
    /\ \A l \in LEVEL_RANGE : last_call.locals.adjusted_C[l] >= 0
    /\ SumLevels(LastRecord.final_structure) = last_call.args.target_total
    /\ last_call.locals.initial_total # last_call.locals.total_social_hiring_needed
    /\ \E l \in LEVEL_RANGE :
          last_call.locals.A_social[l] # last_call.args.current_social_employees[l]
    /\ \E l \in LEVEL_RANGE : LastRecord.social_hiring[l] > 0

\* C26: whenever social_hiring_total <= 0, the returned social hires are 0 at
\* every level.
C26_NoHiresWithoutNeed ==
    (last_call.some /\ last_call.locals.total_social_hiring_needed <= 0) =>
        \A l \in LEVEL_RANGE : LastRecord.social_hiring[l] = 0

\* C27: a level whose hiring-allocation ratio is 0 receives no social hires.
C27_NoHiresAtRatioZero ==
    last_call.some =>
        \A l \in LEVEL_RANGE :
            last_call.args.hiring_ratios[l] = 0 => LastRecord.social_hiring[l] = 0

\* C29: in each channel the promoted-in count at L in 2..7 is the
\* promoted-out count at L-1, and the post-promotion headcounts sum to the
\* original ones minus round(headcount[7] * promotion_rate[7]).
C29_PromotionConserves ==
    last_call.some =>
        LET a == last_call.args
            t == last_call.locals
        IN  /\ \A l \in (MIN_LEVEL + 1)..MAX_LEVEL :
                  /\ PromotedIn(a.current_campus_employees, a.campus_promotion_rates, l)
                        = PromotedOut(a.current_campus_employees, a.campus_promotion_rates, l - 1)
                  /\ PromotedIn(a.current_social_employees, a.social_promotion_rates, l)
                        = PromotedOut(a.current_social_employees, a.social_promotion_rates, l - 1)
            /\ SumLevels(t.A_campus)
                  = SumLevels(a.current_campus_employees)
                    - NearestEven(a.current_campus_employees[MAX_LEVEL]
                                      * a.campus_promotion_rates[MAX_LEVEL], RateDen)
            /\ SumLevels(t.A_social)
                  = SumLevels(a.current_social_employees)
                    - NearestEven(a.current_social_employees[MAX_LEVEL]
                                      * a.social_promotion_rates[MAX_LEVEL], RateDen)

C29_Witness ==
    /\ last_call.some
    /\ SumLevels(last_call.locals.A_social)
          < SumLevels(last_call.args.current_social_employees)
    /\ \E l \in (MIN_LEVEL + 1)..MAX_LEVEL :
          /\ last_call.args.current_social_employees[l - 1]
                * last_call.args.social_promotion_rates[l - 1] > RateDen
          /\ 2 * ((last_call.args.current_social_employees[l - 1]
                      * last_call.args.social_promotion_rates[l - 1]) % RateDen) = RateDen

\* lo <= q <= hi for a quotient q.
QuotWithin(q, lo, hi) ==
    IF q.den > 0
    THEN lo * q.den <= q.num /\ q.num <= hi * q.den
    ELSE hi * q.den <= q.num /\ q.num <= lo * q.den

\* C30: in every forecast year the predicted campus ratio lies in [0,1] and
\* the predicted average level is 0.0 or lies in [1,7].
C30_MetricsInRange ==
    last_call.some =>
        /\ QuotWithin(LastRecord.campus_ratio, 0, 1)
        /\ \/ LastRecord.average_level = Zero
           \/ QuotWithin(LastRecord.average_level, MIN_LEVEL, MAX_LEVEL)

\* C23: with a carried age-mass supplied, predict_one_year returns the same
\* result whatever the current ages are: the call's own, none, or others.
C23_AgesIgnoredWhenCarried ==
    (/\ api_call.some
     /\ api_call.op = "predict_one_year"
     /\ api_call.arg.previous_predicted_total_age.some) =>
        /\ ~api_call.out.raised
        /\ api_call.out
              = PredictOneYear([api_call.arg EXCEPT !.current_campus_ages = None,
                                                    !.current_social_ages = None])
        /\ api_call.out
              = PredictOneYear([api_call.arg EXCEPT
                                    !.current_campus_ages = Some(SocialAges),
                                    !.current_social_ages = Some(CampusAges)])

C23_Witness ==
    /\ api_call.some
    /\ api_call.op = "predict_one_year"
    /\ api_call.arg.previous_predicted_total_age.some
    /\ api_call.arg.current_campus_ages.some
    /\ api_call.arg.current_social_ages.some
    /\ ~api_call.out.raised
    /\ SumLevels(api_call.arg.current_campus_employees) > 0
    /\ api_call.arg.previous_predicted_total_age.val
          # RateDen * SumLevels([l \in LEVEL_RANGE |->
                api_call.arg.current_campus_employees[l] * api_call.arg.current_campus_ages.val[l]
                + api_call.arg.current_social_employees[l]
                      * api_call.arg.current_social_ages.val[l]])

\* C28: when social_hiring_total >= 0 and the hiring ratios are non-negative
\* and sum to 1, no corrected allocation is negative and the returned social
\* hires sum to social_hiring_total.
C28_NoClampWithProperRatios ==
    (/\ api_call.some
     /\ api_call.op = "predict_one_year"
     /\ ~api_call.out.raised
     /\ Locals(api_call.arg).total_social_hiring_needed >= 0
     /\ \A l \in LEVEL_RANGE : api_call.arg.hiring_ratios[l] >= 0
     /\ SumLevels(api_call.arg.hiring_ratios) = RateDen) =>
        /\ \A l \in LEVEL_RANGE : Locals(api_call.arg).adjusted_C[l] >= 0
        /\ SumLevels(api_call.out.C) = Locals(api_call.arg).total_social_hiring_needed

====
